---- MODULE Spec2Model ----
(***************************************************************************)
(* A model of cap_alerts: the parallel batch loader (load_alerts.py) over  *)
(* a transactional store, and the pure normalization helpers of models.py. *)
(***************************************************************************)
EXTENDS Integers, Sequences, FiniteSets, TLC

VARIABLES
    files,      \* FILES, sorted: each segment, as far as it has been read
    enforceKey, \* whether the store has a unique index on the Alert natural key
    run,        \* how many times main() has been started over the same archive
    store,      \* committed rows of the database
    store0,     \* the store as it was when the current run of main() started
    submitted,  \* len(futures): files handed to the executor so far
    worker,     \* per file: the future's state and process_file's position
    progress,   \* the manager dict _progress: task_id -> progress/total
    mpc,        \* main()'s position
    polled,     \* whether the body of main()'s while loop has run in this run
    surfaced,   \* the exception main() raised, with the future it came from
    logged,     \* futures whose exception print_result has logged
    doc,        \* the input a normalization helper is applied to
    out,        \* what the helper returned or raised
    phase       \* how far the helper's input has been taken

pipeVars == << files, enforceKey, run, store, store0, submitted, worker,
               progress, mpc, polled, surfaced, logged >>

fnVars == << doc, out, phase >>

vars == << pipeVars, fnVars >>

----------------------------------------------------------------------------
(* Bounds of the model. *)
MaxFiles == 2
MaxRecs == 2
MaxWorkers == 2
MaxRuns == 2
MaxRerunFiles == 1

None == "None"

(* What one jsonl line does when process_file reaches it: it loads; or it is
   no JSON object with an originalMessage; or its document does not parse
   (etree.fromstring) or does not normalize (Alert.from_element); or the
   store rejects a row of its graph. *)
RecKinds == {"ok", "bad_json", "bad_doc", "bad_row"}

SeqsUpTo(S, k) == UNION { [1..m -> S] : m \in 0..k }

(* A segment nothing has opened yet. What a segment holds shows when it is
   read: whether it decompresses and how many lines it has when it is opened,
   what a line does when that line is decoded. lines are the lines decoded
   so far. *)
Unread == [read |-> FALSE, corrupt |-> FALSE, len |-> 0, lines |-> << >>]

(* lzma.open(file_path, "rt").read().splitlines(): the segment is unreadable
   at the compression layer, or has some number of lines; a segment read
   before is the same segment. *)
OpenOutcomes(file) ==
    IF file.read THEN { file }
    ELSE { [read |-> TRUE, corrupt |-> TRUE, len |-> 0, lines |-> << >>] }
         \cup { [read |-> TRUE, corrupt |-> FALSE, len |-> m, lines |-> << >>] :
                    m \in 0..MaxRecs }

(* What line i of the segment does: as before if it was decoded before. *)
LineKinds(file, i) ==
    IF i <= Len(file.lines) THEN { file.lines[i] } ELSE RecKinds

Decoded(file, i, kind) ==
    IF i <= Len(file.lines) THEN file ELSE [file EXCEPT !.lines = Append(@, kind)]

FileIds == 1..Len(files)

----------------------------------------------------------------------------
(* The entity graph of one alert: one row per table of the owned subtree.  *)
Tables == << "alerts", "alert_addresses", "alert_codes", "alert_references",
             "alert_incidents", "alert_info", "areas", "area_polygons",
             "area_geocodes" >>

(* ForeignKey(...) of each child table. *)
ParentTable(t) ==
    CASE t = "alerts" -> None
      [] t \in {"alert_addresses", "alert_codes", "alert_references",
                "alert_incidents", "alert_info"} -> "alerts"
      [] t = "areas" -> "alert_info"
      [] t \in {"area_polygons", "area_geocodes"} -> "areas"

(* The natural key (identifier, sender, sent) of record i of file f. *)
NaturalKey(f, i) == << f, i >>

AlertRows(st) == { r \in st : r.tbl = "alerts" }

Copies(st, key) == Cardinality({ r \in AlertRows(st) : r.key = key })

(* Alert.from_element: the rows of the graph, in flush order (parents first).
   c is the surrogate id the store's sequence hands out for this key. *)
Graph(key, c) ==
    [ j \in 1..Len(Tables) |->
        [ tbl |-> Tables[j], key |-> key, id |-> c,
          parent |-> ParentTable(Tables[j]) ] ]

Range(s) == { s[j] : j \in 1..Len(s) }

Prefix(s, k) == [ j \in 1..k |-> s[j] ]

----------------------------------------------------------------------------
(* The store's side of "with session() as s, s.begin(): s.add(alert)".     *)

(* Variant: the store never checks the natural key. *)
DuplicateKeyUnchecked(st, key) == FALSE

(* The unique index on the natural key, where the store has one. *)
DuplicateKey(st, key) == enforceKey /\ Copies(st, key) > 0

(* Variant: rows flushed before the error stay in the store (no enclosing
   transaction). *)
RollbackPartial(st, flushed) == st \cup Range(flushed)

(* Leaving s.begin() on an exception: the transaction is rolled back. *)
Rollback(st, flushed) == st

(* Leaving s.begin() normally: the flushed rows are committed together. *)
Commit(st, flushed) == st \cup Range(flushed)

(* The rows at which the flush can fail: the Alert row on a duplicate key,
   any row of the graph for a record the store rejects. *)
FailingRows(st, kind, key, rows) ==
    IF DuplicateKey(st, key) THEN {1}
    ELSE IF kind = "bad_row" THEN 1..Len(rows)
    ELSE {}

(* insert_alert(raw_xml): the possible outcomes as [err, store]. *)
insert_alert(st, kind, key) ==
    IF kind = "bad_doc" THEN { [err |-> "DocumentError", store |-> st] }
    ELSE LET rows == Graph(key, Copies(st, key) + 1)
             bad == FailingRows(st, kind, key, rows)
         IN IF bad = {}
            THEN { [err |-> None, store |-> Commit(st, rows)] }
            ELSE { [err |-> IF DuplicateKey(st, key) THEN "IntegrityError"
                            ELSE "PersistError",
                    store |-> Rollback(st, Prefix(rows, j - 1))] : j \in bad }

(* One iteration of process_file's loop up to the progress write:
   decoder.decode(line)["originalMessage"], then insert_alert. *)
RecordOutcomes(st, kind, key) ==
    IF kind = "bad_json" THEN { [err |-> "DecodeError", store |-> st] }
    ELSE insert_alert(st, kind, key)

----------------------------------------------------------------------------
(* Futures and workers. *)
Terminal == {"Completed", "Failed"}

(* No exception. *)
NoError == [type |-> None, rec |-> 0]

NotRaised == [file |-> 0, err |-> NoError]

IdleWorker == [state |-> "Pending", pc |-> "idle", idx |-> 0, total |-> 0,
               err |-> NoError]

Failed(w, e) == [w EXCEPT !.state = "Failed", !.pc = "end", !.err = e]

Completed(w) == [w EXCEPT !.state = "Completed", !.pc = "end"]

(* Variant: the loop body catches the exception and goes on to the next
   record. *)
OnRecordErrorSkip(w, e) ==
    IF w.idx = w.total THEN Completed(w)
    ELSE [w EXCEPT !.pc = "insert", !.idx = @ + 1]

(* An exception raised while handling record w.idx: nothing in process_file
   catches it, so it ends the call and becomes the future's exception. *)
OnRecordError(w, e) == Failed(w, [type |-> e, rec |-> w.idx])

NRunning == Cardinality({ f \in FileIds : worker[f].state = "Running" })

(* sum([future.done() for future in futures]) *)
NFinished == Cardinality({ f \in 1..submitted : worker[f].state \in Terminal })

(* Variant: the executor hands a failed work item to a process again. *)
StartRetrying(f) ==
    /\ f <= submitted
    /\ worker[f].state \in {"Pending", "Failed"}
    /\ NRunning < MaxWorkers
    /\ \A g \in 1..(f - 1) : worker[g].state # "Pending"
    /\ worker' = [worker EXCEPT ![f] = [@ EXCEPT !.state = "Running", !.pc = "open"]]
    /\ UNCHANGED << files, enforceKey, run, store, store0, submitted, progress,
                    mpc, polled, surfaced, logged >>
    /\ UNCHANGED fnVars

(* The executor takes work items in submission order once a process is free. *)
Start(f) ==
    /\ f <= submitted
    /\ worker[f].state = "Pending"
    /\ NRunning < MaxWorkers
    /\ \A g \in 1..(f - 1) : worker[g].state # "Pending"
    /\ worker' = [worker EXCEPT ![f] = [@ EXCEPT !.state = "Running", !.pc = "open"]]
    /\ UNCHANGED << files, enforceKey, run, store, store0, submitted, progress,
                    mpc, polled, surfaced, logged >>
    /\ UNCHANGED fnVars

(* Variant: the lines are walked from the end of the file. *)
FirstRecordFromEnd(total) == total

(* for n, line in enumerate(lines): the loop starts at the first line; the
   model counts records from 1, as n + 1. *)
FirstRecord(total) == 1

(* lzma.open(...).read().splitlines(); len_of_task = len(lines) *)
OpenFile(f) ==
    /\ worker[f].pc = "open"
    /\ \E file \in OpenOutcomes(files[f]) :
          /\ files' = [files EXCEPT ![f] = file]
          /\ IF file.corrupt
             THEN /\ worker' = [worker EXCEPT ![f] =
                         Failed(@, [type |-> "LZMAError", rec |-> 0])]
                  /\ logged' = logged \cup {f}
             ELSE /\ worker' = [worker EXCEPT ![f] =
                         IF file.len = 0
                         THEN Completed([@ EXCEPT !.total = 0])
                         ELSE [@ EXCEPT !.pc = "insert",
                                        !.idx = FirstRecord(file.len),
                                        !.total = file.len]]
                  /\ UNCHANGED logged
    /\ UNCHANGED << enforceKey, run, store, store0, submitted, progress,
                    mpc, polled, surfaced >>
    /\ UNCHANGED fnVars

(* raw_xml = decoder.decode(line)["originalMessage"]; insert_alert(raw_xml) *)
InsertAlert(f) ==
    /\ worker[f].pc = "insert"
    /\ \E kind \in LineKinds(files[f], worker[f].idx) :
       \E o \in RecordOutcomes(store, kind, NaturalKey(f, worker[f].idx)) :
          /\ files' = [files EXCEPT ![f] = Decoded(@, worker[f].idx, kind)]
          /\ store' = o.store
          /\ IF o.err = None
             THEN /\ worker' = [worker EXCEPT ![f] = [@ EXCEPT !.pc = "progress"]]
                  /\ UNCHANGED logged
             ELSE /\ worker' = [worker EXCEPT ![f] = OnRecordError(@, o.err)]
                  /\ logged' = IF worker'[f].state = "Failed"
                               THEN logged \cup {f} ELSE logged
    /\ UNCHANGED << enforceKey, run, store0, submitted, progress,
                    mpc, polled, surfaced >>
    /\ UNCHANGED fnVars

(* Variant: the entry counts the records still to do. *)
ProgressEntryRemaining(w) == [progress |-> w.total - w.idx + 1, total |-> w.total]

(* Variant: the entry holds n instead of n + 1. *)
ProgressEntryZeroBased(w) == [progress |-> w.idx - 1, total |-> w.total]

(* {"progress": n + 1, "total": len_of_task} *)
ProgressEntry(w) == [progress |-> w.idx, total |-> w.total]

(* _progress[task_id] = {"progress": n + 1, "total": len_of_task}, then the
   next iteration, or the return that completes the future. *)
PublishProgress(f) ==
    /\ worker[f].pc = "progress"
    /\ progress' = (f :> ProgressEntry(worker[f])) @@ progress
    /\ worker' = [worker EXCEPT ![f] =
           IF @.idx = @.total THEN Completed(@)
           ELSE [@ EXCEPT !.pc = "insert", !.idx = @ + 1]]
    /\ UNCHANGED << files, enforceKey, run, store, store0, submitted,
                    mpc, polled, surfaced, logged >>
    /\ UNCHANGED fnVars

----------------------------------------------------------------------------
(* main() *)

(* executor.submit(process_file, task_id, file_path) for the next file. *)
Submit ==
    /\ mpc = "submit"
    /\ submitted < Len(files)
    /\ submitted' = submitted + 1
    /\ UNCHANGED << files, enforceKey, run, store, store0, worker, progress,
                    mpc, polled, surfaced, logged >>
    /\ UNCHANGED fnVars

SubmitDone ==
    /\ mpc = "submit"
    /\ submitted = Len(files)
    /\ mpc' = "poll"
    /\ UNCHANGED << files, enforceKey, run, store, store0, submitted, worker,
                    progress, polled, surfaced, logged >>
    /\ UNCHANGED fnVars

(* Variant: the loop is left as soon as one future is done. *)
LoopConditionAny == NFinished = 0 /\ submitted > 0

(* Variant: <= instead of <. *)
LoopConditionInclusive == NFinished <= submitted

(* while (n_finished := sum(...)) < len(futures): *)
LoopCondition == NFinished < submitted

(* The loop body only redraws the progress bars from _progress. *)
PollBody ==
    /\ mpc = "poll"
    /\ LoopCondition
    /\ polled' = TRUE
    /\ UNCHANGED << files, enforceKey, run, store, store0, submitted, worker,
                    progress, mpc, surfaced, logged >>
    /\ UNCHANGED fnVars

PollExit ==
    /\ mpc = "poll"
    /\ ~LoopCondition
    /\ mpc' = "results"
    /\ UNCHANGED << files, enforceKey, run, store, store0, submitted, worker,
                    progress, polled, surfaced, logged >>
    /\ UNCHANGED fnVars

(* Variant: the futures are visited in reverse order. *)
LastStopping(w) ==
    LET open == { f \in 1..submitted : w[f].state # "Completed" }
    IN IF open = {} THEN 0
       ELSE CHOOSE f \in open : \A g \in open : f >= g

(* for future in futures: future.result() stops at the first future, in
   list order, that is not completed: 0 when every future completed. *)
FirstStopping(w) ==
    LET open == { f \in 1..submitted : w[f].state # "Completed" }
    IN IF open = {} THEN 0
       ELSE CHOOSE f \in open : \A g \in open : f <= g

(* Variant: main() never calls future.result(). *)
ResultsIgnoringErrors ==
    /\ mpc = "results"
    /\ mpc' = "done"
    /\ UNCHANGED << files, enforceKey, run, store, store0, submitted, worker,
                    progress, polled, surfaced, logged >>
    /\ UNCHANGED fnVars

Results ==
    /\ mpc = "results"
    /\ LET f == FirstStopping(worker)
       IN IF f = 0
          THEN mpc' = "done" /\ UNCHANGED surfaced
          ELSE /\ worker[f].state = "Failed"
               /\ mpc' = "raised"
               /\ surfaced' = [file |-> f, err |-> worker[f].err]
    /\ UNCHANGED << files, enforceKey, run, store, store0, submitted, worker,
                    progress, polled, logged >>
    /\ UNCHANGED fnVars

(* The script is started again over the same archive and the same store. *)
Rerun ==
    /\ mpc \in {"done", "raised"}
    /\ run < MaxRuns
    /\ run' = run + 1
    /\ store0' = store
    /\ submitted' = 0
    /\ worker' = [f \in FileIds |-> IdleWorker]
    /\ progress' = << >>
    /\ mpc' = "submit"
    /\ polled' = FALSE
    /\ surfaced' = NotRaised
    /\ logged' = {}
    /\ UNCHANGED << files, enforceKey, store >>
    /\ UNCHANGED fnVars

(* The archive directory holds n segments; the store is empty. *)
Start0(n) ==
    /\ files = [f \in 1..n |-> Unread]
    /\ run = 1
    /\ store = {}
    /\ store0 = {}
    /\ submitted = 0
    /\ worker = [f \in FileIds |-> IdleWorker]
    /\ progress = << >>
    /\ mpc = "submit"
    /\ polled = FALSE
    /\ surfaced = NotRaised
    /\ logged = {}
    /\ doc = None
    /\ out = None
    /\ phase = "idle"

(* One run of main() over a store with the schema models.py declares. *)
Init ==
    /\ enforceKey = FALSE
    /\ \E n \in 0..MaxFiles : Start0(n)

Next ==
    \/ \E f \in FileIds : Start(f)
    \/ \E f \in FileIds : OpenFile(f)
    \/ \E f \in FileIds : InsertAlert(f)
    \/ \E f \in FileIds : PublishProgress(f)
    \/ Submit
    \/ SubmitDone
    \/ PollBody
    \/ PollExit
    \/ Results

Spec == Init /\ [][Next]_vars

(* Every process gets to run, and main() keeps running. *)
FairSpec == Spec /\ WF_vars(Next)

(* main() run again and again over the same archive, over a store that may
   have a unique index on the natural key. *)
InitRerun ==
    /\ enforceKey \in BOOLEAN
    /\ \E n \in 0..MaxRerunFiles : Start0(n)

NextRerun == Next \/ Rerun

SpecRerun == InitRerun /\ [][NextRerun]_vars

----------------------------------------------------------------------------
(* Vocabulary of the claims about the loader. *)

(* Rows committed by the current run of main(). *)
ThisRun == store \ store0

PersistedNow(f, i) ==
    \E r \in AlertRows(ThisRun) : r.key = NaturalKey(f, i)

(* Decoded record i of file f cannot be loaded in the current run: it does not
   decode, parse, normalize or persist, or its key is already in a
   key-enforcing store. *)
Fails(f, i) ==
    \/ files[f].lines[i] # "ok"
    \/ enforceKey /\ Copies(store0, NaturalKey(f, i)) > 0

(* Index of the first decoded record of f that fails, 0 if none does. *)
FirstFailing(f) ==
    LET bad == { i \in 1..Len(files[f].lines) : Fails(f, i) }
    IN IF bad = {} THEN 0 ELSE CHOOSE i \in bad : \A j \in bad : i <= j

(* Records of f on which an iteration of the loop was started. *)
Attempted(f) == worker[f].idx

Readable(f) == ~files[f].corrupt

JobOver == mpc \in {"done", "raised"}

AllTerminal == \A f \in FileIds : worker[f].state \in Terminal

FailedFiles == { f \in FileIds : worker[f].state = "Failed" }

C3_AtomicGraph ==
    \A r \in store :
        /\ r.parent # None =>
               \E p \in store : p.tbl = r.parent /\ p.key = r.key /\ p.id = r.id
        /\ r.tbl = "alerts" => Range(Graph(r.key, r.id)) \subseteq store

(* C3 witness: a transaction was rolled back on a persistence error while
   another worker's alert is in the store. *)
C3_Witness ==
    /\ \E f \in FileIds :
           /\ worker[f].state = "Failed"
           /\ worker[f].err.type = "PersistError"
    /\ \E g \in FileIds :
           /\ worker[g].state # "Failed"
           /\ PersistedNow(g, 1)

(* A file's failure changes no other file's worker. *)
FailureIsLocal ==
    \A f \in FileIds :
        (worker[f].state # "Failed" /\ worker'[f].state = "Failed") =>
            \A g \in FileIds \ {f} : worker'[g] = worker[g]

(* C4: main() raises only when every file is terminal, a file's failure leaves
   the other files' workers as they are, and once a file has failed every
   file still reaches a terminal state. *)
C4_NotFailFast ==
    /\ [](mpc = "raised" => AllTerminal)
    /\ [][FailureIsLocal]_vars
    /\ (FailedFiles # {}) ~> AllTerminal

(* C4 witness: main() raised after one file failed and another completed
   all its records. *)
C4_Witness ==
    /\ mpc = "raised"
    /\ \E f, g \in FileIds :
           /\ f < g
           /\ worker[f].state = "Failed"
           /\ worker[g].state = "Completed"
           /\ worker[g].total > 0

EmptyArchiveIsQuiet ==
    Len(files) = 0 =>
        /\ submitted = 0
        /\ ~polled
        /\ mpc = "poll" => ~LoopCondition
        /\ mpc # "raised"
        /\ progress = << >>
        /\ store = {}

(* C6: with no segment file main() dispatches nothing, never runs the body of
   its poll loop, does not raise, and reaches its end. *)
C6_EmptyArchive ==
    /\ []EmptyArchiveIsQuiet
    /\ (Len(files) = 0) ~> (mpc = "done")

(* C6 witness: main() is done over an empty archive. *)
C6_Witness == Len(files) = 0 /\ mpc = "done"

LifecycleMoves ==
    { << "Pending", "Running" >>, << "Running", "Completed" >>,
      << "Running", "Failed" >> }

(* A step changes a file's state only along the lifecycle. *)
LifecycleStep ==
    \A f \in FileIds :
        worker'[f].state # worker[f].state =>
            << worker[f].state, worker'[f].state >> \in LifecycleMoves

(* Files are submitted one at a time, in order, and only by the submit loop. *)
DispatchStep ==
    submitted' # submitted => (mpc = "submit" /\ submitted' = submitted + 1)

(* C11: every file is submitted exactly once, a file's state moves only
   Pending -> Running -> Completed or Failed, a terminal state is never left,
   only submitted files leave Pending, and main() is not over while a file is
   not terminal. *)
C11_FileLifecycle ==
    /\ [][LifecycleStep /\ DispatchStep]_vars
    /\ [](submitted <= Len(files))
    /\ [](\A f \in FileIds : worker[f].state # "Pending" => f <= submitted)
    /\ [](mpc # "submit" => submitted = Len(files))
    /\ [](JobOver => AllTerminal)

(* C11 witness: main() is polling while one file is terminal and another is
   still running. *)
C11_Witness ==
    /\ mpc = "poll"
    /\ \E f, g \in FileIds :
           /\ worker[f].state \in Terminal
           /\ worker[g].state = "Running"

(* A step moves a file's record index only to the next record, and only from
   the open of the file or after the record before was committed and its
   progress written. *)
RecordOrderStep ==
    \A f \in FileIds :
        worker'[f].idx # worker[f].idx =>
            /\ worker'[f].idx = worker[f].idx + 1
            /\ \/ worker[f].pc = "open"
               \/ /\ worker[f].pc = "progress"
                  /\ PersistedNow(f, worker[f].idx)
                  /\ progress'[f].progress = worker[f].idx

(* A step never removes a file's progress entry nor lowers its count. *)
ProgressMonotoneStep ==
    \A f \in DOMAIN progress :
        /\ f \in DOMAIN progress'
        /\ progress'[f].progress >= progress[f].progress

(* C12: within a file the records are taken in file order, each after the one
   before has finished, the lines decoded are always the records up to the
   current one, and the file's published progress count never decreases. *)
C12_RecordOrder ==
    /\ [][RecordOrderStep /\ ProgressMonotoneStep]_vars
    /\ [](\A f \in FileIds :
             /\ Len(files[f].lines) <= worker[f].idx
             /\ worker[f].idx <= Len(files[f].lines) + 1
             /\ worker[f].idx <= worker[f].total)

(* C12 witness: one file has published its second count while another worker
   is in the middle of its file and main() has run its poll loop. *)
C12_Witness ==
    /\ polled
    /\ \E f, g \in FileIds :
           /\ f # g
           /\ f \in DOMAIN progress
           /\ progress[f].progress = 2
           /\ worker[g].state = "Running"
           /\ worker[g].idx = 1

(* Number of records of file f committed by the current run. *)
Committed(f) == Cardinality({ i \in 1..files[f].len : PersistedNow(f, i) })

(* C15: in every state the records of a file persisted by the run are a prefix
   of the file: each was loadable, every record before a persisted record is
   persisted, the record being handled has all earlier records persisted, and
   no record from the first failing one on is persisted. *)
C15_PersistedPrefix ==
    \A f \in FileIds :
        /\ \A i \in 1..files[f].len :
               PersistedNow(f, i) =>
                   /\ i <= Len(files[f].lines)
                   /\ ~Fails(f, i)
                   /\ \A j \in 1..(i - 1) : PersistedNow(f, j)
        /\ \A j \in 1..(worker[f].idx - 1) : PersistedNow(f, j)
        /\ FirstFailing(f) # 0 =>
               \A i \in 1..files[f].len :
                   i >= FirstFailing(f) => ~PersistedNow(f, i)

(* C15 witness: a file failed at its second record with its first persisted,
   while another file's worker has persisted a record. *)
C15_Witness ==
    \E f, g \in FileIds :
        /\ f # g
        /\ worker[f].state = "Failed"
        /\ FirstFailing(f) = 2
        /\ PersistedNow(f, 1)
        /\ PersistedNow(g, 1)

(* C16 as stated: every progress entry belongs to a file, has
   1 <= progress <= total with total the file's record count, its progress is
   the number of the file's records committed so far, and progress = total
   exactly if the file's last record has been committed. *)
C16_ProgressEqualsCommitted ==
    \A f \in DOMAIN progress :
        /\ f \in FileIds
        /\ 1 <= progress[f].progress
        /\ progress[f].progress <= progress[f].total
        /\ progress[f].total = files[f].len
        /\ progress[f].progress = Committed(f)
        /\ progress[f].progress = progress[f].total <=>
               PersistedNow(f, files[f].len)

(* The count of file f that a reader of _progress sees: 0 without an entry. *)
Shown(f) == IF f \in DOMAIN progress THEN progress[f].progress ELSE 0

(* A step writes a file's entry only as that file's running worker, between
   the commit of a record and the next record, and writes the number of the
   file's records committed so far. *)
ProgressWriteStep ==
    \A f \in DOMAIN progress' :
        (f \notin DOMAIN progress \/ progress'[f] # progress[f]) =>
            /\ worker[f].state = "Running"
            /\ worker[f].pc = "progress"
            /\ progress'[f].progress = Committed(f)
            /\ progress'[f].total = files[f].len
            /\ \A g \in FileIds \ {f} : worker'[g] = worker[g]

(* C16 amended: an entry is written only by its file's worker, after the
   commit of a record, with the number of records committed so far; so every
   entry has 1 <= progress <= total with total the file's record count, the
   count shown is the number committed or, between a commit and the write
   that follows it, one less; progress = total implies the last record is
   committed, and holds once the file is Completed; a Failed file never shows
   progress = total. *)
C16_ProgressLagsCommit ==
    /\ [][ProgressWriteStep]_vars
    /\ [](\A f \in DOMAIN progress :
             /\ f \in FileIds
             /\ 1 <= progress[f].progress
             /\ progress[f].progress <= progress[f].total
             /\ progress[f].total = files[f].len
             /\ progress[f].progress = progress[f].total =>
                    PersistedNow(f, files[f].len)
             /\ worker[f].state = "Failed" =>
                    progress[f].progress < progress[f].total)
    /\ [](\A f \in FileIds :
             /\ Committed(f) =
                    Shown(f) + (IF worker[f].pc = "progress" THEN 1 ELSE 0)
             /\ (worker[f].state = "Completed" /\ files[f].len > 0) =>
                    Shown(f) = files[f].len)

(* C16 witness: the second record of a file is committed while the file's
   entry still shows 1 of 2, and main() has run its poll loop. *)
C16_Witness ==
    /\ polled
    /\ \E f \in DOMAIN progress :
           /\ worker[f].pc = "progress"
           /\ Committed(f) = 2
           /\ progress[f].progress = 1
           /\ progress[f].total = 2

----------------------------------------------------------------------------
(* The normalization helpers of models.py, each applied to inputs drawn    *)
(* from a bounded set. Text is a sequence of one-character strings.        *)

(* The loader is not running while a helper is examined on its own. *)
LoaderIdle ==
    /\ files = << >>
    /\ enforceKey = FALSE
    /\ run = 1
    /\ store = {}
    /\ store0 = {}
    /\ submitted = 0
    /\ worker = << >>
    /\ progress = << >>
    /\ mpc = "idle"
    /\ polled = FALSE
    /\ surfaced = NotRaised
    /\ logged = {}

(* An optional value: absent, or present with a value. *)
Absent == << >>

Some(v) == << v >>

(* str.split(sep): the parts between the separators, empty parts included. *)
RECURSIVE Split(_, _)
Split(text, sep) ==
    IF \A i \in 1..Len(text) : text[i] # sep
    THEN << text >>
    ELSE LET p == CHOOSE i \in 1..Len(text) :
                      text[i] = sep /\ \A j \in 1..(i - 1) : text[j] # sep
         IN << SubSeq(text, 1, p - 1) >>
                \o Split(SubSeq(text, p + 1, Len(text)), sep)

Digits == << "0", "1", "2", "3", "4", "5", "6", "7", "8", "9" >>

IsDigit(c) == \E d \in 1..Len(Digits) : Digits[d] = c

DigitValue(c) == (CHOOSE d \in 1..Len(Digits) : Digits[d] = c) - 1

(* Timestamps are abridged to a fixed-width field of two digits: like
   datetime.fromisoformat, IsoValid accepts one fixed layout only and
   IsoParse turns the text into a value that is not text. *)
IsoValid(text) ==
    /\ Len(text) = 2
    /\ \A i \in 1..Len(text) : IsDigit(text[i])

IsoParse(text) == DigitValue(text[1]) * 10 + DigitValue(text[2])

MaxTokLen == 6

RefChars == {"a", ",", "0", "1"}

(* except ValueError: the whole token becomes the identifier. *)
ReferenceFallback(text) ==
    [raised |-> FALSE, sender |-> Absent, identifier |-> text, sent |-> Absent]

(* Variant: an unparsable timestamp only leaves sent empty; sender and
   identifier keep what the split assigned. *)
from_text_keeps_split(text) ==
    LET parts == Split(text, ",")
    IN IF Len(parts) # 3 THEN ReferenceFallback(text)
       ELSE [raised |-> FALSE, sender |-> Some(parts[1]), identifier |-> parts[2],
             sent |-> IF IsoValid(parts[3]) THEN Some(IsoParse(parts[3]))
                      ELSE Absent]

(* AlertReference.from_text: the unpacking of text.split(",") raises
   ValueError unless there are exactly three parts, fromisoformat raises
   ValueError on text it cannot parse, and both are caught. *)
from_text(text) ==
    LET parts == Split(text, ",")
    IN IF Len(parts) # 3 THEN ReferenceFallback(text)
       ELSE IF ~IsoValid(parts[3]) THEN ReferenceFallback(text)
       ELSE [raised |-> FALSE, sender |-> Some(parts[1]), identifier |-> parts[2],
             sent |-> Some(IsoParse(parts[3]))]

NoReference == [raised |-> FALSE, sender |-> Absent, identifier |-> << >>,
                sent |-> Absent]

InitRef ==
    /\ LoaderIdle
    /\ doc \in SeqsUpTo(RefChars, MaxTokLen)
    /\ out = NoReference
    /\ phase = "input"

ApplyFromText ==
    /\ phase = "input"
    /\ out' = from_text(doc)
    /\ phase' = "done"
    /\ UNCHANGED << doc, pipeVars >>

NextRef == ApplyFromText

SpecRef == InitRef /\ [][NextRef]_vars

(* Positions of the commas of the token. *)
CommaAt == { i \in 1..Len(doc) : doc[i] = "," }

(* C9: a token with exactly two commas whose text after the second comma is a
   timestamp yields the text before the first comma as sender, the text
   between the commas as identifier and the parsed timestamp as sent; every
   other token yields the whole token as identifier, no sender and no sent;
   from_text never raises. *)
C9_ReferenceParsing ==
    phase = "done" =>
        /\ ~out.raised
        /\ IF Cardinality(CommaAt) = 2
              /\ LET q == CHOOSE i \in CommaAt : \A j \in CommaAt : j <= i
                 IN IsoValid(SubSeq(doc, q + 1, Len(doc)))
           THEN LET p == CHOOSE i \in CommaAt : \A j \in CommaAt : i <= j
                    q == CHOOSE i \in CommaAt : \A j \in CommaAt : j <= i
                IN /\ out.sender = Some(SubSeq(doc, 1, p - 1))
                   /\ out.identifier = SubSeq(doc, p + 1, q - 1)
                   /\ out.sent = Some(IsoParse(SubSeq(doc, q + 1, Len(doc))))
           ELSE /\ out.sender = Absent
                /\ out.identifier = doc
                /\ out.sent = Absent

(* C9 witness: a token "S,I,T" with non-empty S and I was split into its
   three fields. *)
C9_Witness ==
    /\ phase = "done"
    /\ out.sender # Absent
    /\ out.sent # Absent
    /\ Len(out.sender[1]) > 0
    /\ Len(out.identifier) > 0

----------------------------------------------------------------------------
(* Enum-valued fields: Alert.from_element, AlertInfo.from_element and the  *)
(* column types the graph is flushed into.                                 *)

AlertScope == {"Public", "Restricted", "Private"}

AlertStatus == {"Actual", "Exercise", "System", "Test", "Draft"}

AlertType == {"Alert", "Update", "Cancel", "Ack", "Error"}

AlertCategoryCode == {"Geo", "Met", "Safety", "Security", "Rescue", "Fire",
                      "Health", "Env", "Transport", "Infra", "CBRNE", "Other"}

AlertCertainty == {"Observed", "Very Likely", "Likely", "Possible", "Unlikely",
                   "Unknown"}

AlertResponseTypeCode == {"Shelter", "Evacuate", "Prepare", "Execute", "Avoid",
                          "Monitor", "Assess", "AllClear", "None"}

AlertSeverity == {"Extreme", "Severe", "Moderate", "Minor", "Unknown"}

AlertUrgency == {"Immediate", "Expected", "Future", "Past", "Unknown"}

EnumFields == {"status", "msgType", "scope", "urgency", "severity",
               "certainty", "category", "responseType"}

(* The fixed vocabulary of each enum-valued field. *)
Vocabulary(field) ==
    CASE field = "status" -> AlertStatus
      [] field = "msgType" -> AlertType
      [] field = "scope" -> AlertScope
      [] field = "urgency" -> AlertUrgency
      [] field = "severity" -> AlertSeverity
      [] field = "certainty" -> AlertCertainty
      [] field = "category" -> AlertCategoryCode
      [] field = "responseType" -> AlertResponseTypeCode

(* Texts tried in each field: a member of its vocabulary, "Unknown" (a member
   of some vocabularies only) and the misspelling "Unkown" (of none). *)
FieldTexts(field) ==
    { CHOOSE v \in Vocabulary(field) : v # "Unknown", "Unknown", "Unkown" }

NoEnumError == [type |-> None, field |-> None, value |-> None]

(* AlertInfo.from_element: AlertResponseTypeCode(x) and AlertCategoryCode(x)
   raise ValueError for a value outside the enum, response types first;
   urgency, severity and certainty are passed on as the text found. *)
AlertInfo_from_element(d) ==
    IF d.responseType \notin AlertResponseTypeCode
    THEN [raised |-> TRUE,
          error |-> [type |-> "ValueError", field |-> "responseType",
                     value |-> d.responseType],
          graph |-> Absent]
    ELSE IF d.category \notin AlertCategoryCode
    THEN [raised |-> TRUE,
          error |-> [type |-> "ValueError", field |-> "category",
                     value |-> d.category],
          graph |-> Absent]
    ELSE [raised |-> FALSE, error |-> NoEnumError,
          graph |-> Some([ f \in {"urgency", "severity", "certainty", "category",
                                  "responseType"} |-> d[f] ])]

(* Alert.from_element: the info blocks first, then status, msgtype and scope
   as the text found. *)
Alert_from_element(d) ==
    LET info == AlertInfo_from_element(d)
    IN IF info.raised THEN info
       ELSE [raised |-> FALSE, error |-> NoEnumError,
             graph |-> Some([ f \in EnumFields |->
                                IF f \in {"status", "msgType", "scope"}
                                THEN d[f] ELSE info.graph[1][f] ])]

(* Columns declared with sqlalchemy.Enum or an enum Mapped type: the flush
   fails on a value outside the enum. status, msgtype and scope are
   Mapped[str]. *)
EnumColumns == {"urgency", "severity", "certainty", "category", "responseType"}

FlushAccepts(g) == \A f \in EnumColumns : g[f] \in Vocabulary(f)

InitNorm ==
    /\ LoaderIdle
    /\ doc \in [ status : FieldTexts("status"), msgType : FieldTexts("msgType"),
                  scope : FieldTexts("scope"), urgency : FieldTexts("urgency"),
                  severity : FieldTexts("severity"),
                  certainty : FieldTexts("certainty"),
                  category : FieldTexts("category"),
                  responseType : FieldTexts("responseType") ]
    /\ out = [raised |-> FALSE, error |-> NoEnumError, graph |-> Absent]
    /\ phase = "input"

(* insert_alert up to the transaction: models.Alert.from_element(root) *)
Normalize ==
    /\ phase = "input"
    /\ out' = Alert_from_element(doc)
    /\ phase' = IF out'.raised THEN "failed" ELSE "normalized"
    /\ UNCHANGED << doc, pipeVars >>

(* insert_alert's transaction: with session() as s, s.begin(): s.add(alert) *)
Persist ==
    /\ phase = "normalized"
    /\ phase' = IF FlushAccepts(out.graph[1]) THEN "stored" ELSE "rejected"
    /\ UNCHANGED << doc, out, pipeVars >>

NextNorm == Normalize \/ Persist

SpecNorm == InitNorm /\ [][NextNorm]_vars

BadEnumFields == { f \in EnumFields : doc[f] \notin Vocabulary(f) }

(* C8: an alert with a value outside the vocabulary of an enum-valued field
   fails normalization with an error naming such a field and its value, and is
   never handed to the store. *)
C8_EnumValidation ==
    (phase # "input" /\ BadEnumFields # {}) =>
        /\ phase = "failed"
        /\ out.error.field \in BadEnumFields
        /\ out.error.value = doc[out.error.field]

----------------------------------------------------------------------------
(* Geometry: AreaPolygon.from_circle_text and from_polygon_text. Numbers   *)
(* are abridged to one-digit integers with an optional sign.               *)

MaxCoord == 2
MaxPoints == 3

Coords == (0 - MaxCoord)..MaxCoord

FormatNum(n) ==
    IF n < 0 THEN << "-", Digits[(0 - n) + 1] >> ELSE << Digits[n + 1] >>

(* float(text) for the texts above; ValueError otherwise. *)
IsNumber(text) ==
    \/ Len(text) = 1 /\ IsDigit(text[1])
    \/ Len(text) = 2 /\ text[1] = "-" /\ IsDigit(text[2])

ParseNum(text) ==
    IF text[1] = "-" THEN 0 - DigitValue(text[2]) ELSE DigitValue(text[1])

(* str.split(): the parts between runs of blanks, no empty part. *)
SplitBlank(text) == SelectSeq(Split(text, " "), LAMBDA part : Len(part) > 0)

RECURSIVE Join(_, _)
Join(parts, sep) ==
    IF Len(parts) = 0 THEN << >>
    ELSE IF Len(parts) = 1 THEN parts[1]
    ELSE parts[1] \o << sep >> \o Join(Tail(parts), sep)

(* The CAP text "lat,lon" of a point. *)
PointText(pt) == FormatNum(pt.lat) \o << "," >> \o FormatNum(pt.lon)

CircleText(pt, r) == PointText(pt) \o << " " >> \o FormatNum(r)

PolygonText(pts) == Join([ i \in 1..Len(pts) |-> PointText(pts[i]) ], " ")

Points == [lat : Coords, lon : Coords]

GeoRaise(e) == [raised |-> TRUE, error |-> e, centre |-> << >>, radius |-> 0,
                ring |-> << >>]

(* AreaPolygon.from_circle_text: Point(x, y).buffer(d) is centred on (x, y). *)
from_circle_text(text) ==
    LET parts == SplitBlank(text)
    IN IF Len(parts) # 2 THEN GeoRaise("IPAWSAlertsError")
       ELSE LET coords == Split(parts[1], ",")
            IN IF Len(coords) # 2 THEN GeoRaise("IPAWSAlertsError")
               ELSE IF ~(IsNumber(coords[1]) /\ IsNumber(coords[2])
                           /\ IsNumber(parts[2]))
               THEN GeoRaise("ValueError")
               ELSE LET latitude == ParseNum(coords[1])
                        longitude == ParseNum(coords[2])
                    IN [raised |-> FALSE, error |-> None,
                        centre |-> << latitude, longitude >>,
                        radius |-> ParseNum(parts[2]) * 1000,
                        ring |-> << >>]

(* AreaPolygon.from_polygon_text: Point(float(longitude), float(latitude))
   for every token; Polygon(points) needs no point or at least three. *)
from_polygon_text(text) ==
    LET toks == SplitBlank(text)
        wellFormed(tok) ==
            LET cs == Split(tok, ",")
            IN Len(cs) = 2 /\ IsNumber(cs[1]) /\ IsNumber(cs[2])
    IN IF \E i \in 1..Len(toks) : ~wellFormed(toks[i])
       THEN GeoRaise("IPAWSAlertsError")
       ELSE IF Len(toks) \in {1, 2} THEN GeoRaise("ValueError")
       ELSE [raised |-> FALSE, error |-> None, centre |-> << >>, radius |-> 0,
             ring |-> [ i \in 1..Len(toks) |->
                          LET cs == Split(toks[i], ",")
                              latitude == ParseNum(cs[1])
                              longitude == ParseNum(cs[2])
                          IN << longitude, latitude >> ]]

(* Circle and polygon texts written from known points, and texts that lack
   the radius or a coordinate. *)
GeoInputs ==
    { [shape |-> "circle", pts |-> << pt >>, text |-> CircleText(pt, r)] :
          pt \in Points, r \in 1..MaxCoord }
    \cup { [shape |-> "circle", pts |-> << pt >>, text |-> PointText(pt)] :
               pt \in Points }
    \cup { [shape |-> "polygon", pts |-> pts, text |-> PolygonText(pts)] :
               pts \in SeqsUpTo(Points, MaxPoints) }
    \cup { [shape |-> "polygon", pts |-> << pt >>, text |-> FormatNum(pt.lat)] :
               pt \in Points }

InitGeo ==
    /\ LoaderIdle
    /\ doc \in GeoInputs
    /\ out = GeoRaise(None)
    /\ phase = "input"

ApplyCircle ==
    /\ phase = "input"
    /\ doc.shape = "circle"
    /\ out' = from_circle_text(doc.text)
    /\ phase' = "done"
    /\ UNCHANGED << doc, pipeVars >>

ApplyPolygon ==
    /\ phase = "input"
    /\ doc.shape = "polygon"
    /\ out' = from_polygon_text(doc.text)
    /\ phase' = "done"
    /\ UNCHANGED << doc, pipeVars >>

NextGeo == ApplyCircle \/ ApplyPolygon

SpecGeo == InitGeo /\ [][NextGeo]_vars

(* C10: a circle text "lat,lon r" yields a buffer centred on (lon, lat), and
   the token "lat,lon" of a polygon text yields the ring vertex (lon, lat). *)
C10_CoordinateOrder ==
    (phase = "done" /\ ~out.raised) =>
        /\ doc.shape = "circle" =>
               out.centre = << doc.pts[1].lon, doc.pts[1].lat >>
        /\ doc.shape = "polygon" =>
               out.ring = [ i \in 1..Len(doc.pts) |->
                              << doc.pts[i].lon, doc.pts[i].lat >> ]

----------------------------------------------------------------------------
(* util.extract_quoted: quoted_str_parser applied to the text of an        *)
(* element.                                                                *)

Quote == "\""

Blank == " "

TokChars == {"a", "b", Blank, Quote}

(* pyparsing skips leading whitespace before every expression: the first
   position from i on that holds no blank, Len(text) + 1 if there is none. *)
SkipBlanks(text, i) ==
    LET rest == { j \in i..Len(text) : text[j] # Blank }
    IN IF rest = {} THEN Len(text) + 1
       ELSE CHOOSE j \in rest : \A k \in rest : j <= k

(* pp.QuotedString(quote_char='"') at position i: an opening quote, any
   characters but the quote, the closing quote; the token is the text
   between the quotes. 0 when there is no match. *)
QuotedEnd(text, i) ==
    LET closing == { j \in (i + 1)..Len(text) : text[j] = Quote }
    IN IF i > Len(text) \/ text[i] # Quote \/ closing = {} THEN 0
       ELSE CHOOSE j \in closing : \A k \in closing : j <= k

(* pp.Word(pp.printables, exclude_chars='"') at position i: the longest run
   of characters that are neither blank nor quote; its last position, 0 when
   the run is empty. *)
WordEnd(text, i) ==
    LET stop == { j \in i..Len(text) : text[j] \in {Blank, Quote} }
        last == IF stop = {} THEN Len(text)
                ELSE (CHOOSE j \in stop : \A k \in stop : j <= k) - 1
    IN IF i > Len(text) \/ last < i THEN 0 ELSE last

(* pp.OneOrMore(QuotedString | Word) from position i: tokens are taken as
   long as one of the two matches; the repetition ends, without an error,
   where neither does. *)
RECURSIVE Repeat(_, _)
Repeat(text, i) ==
    LET at == SkipBlanks(text, i)
        q == QuotedEnd(text, at)
        w == WordEnd(text, at)
    IN IF q # 0 THEN << SubSeq(text, at + 1, q - 1) >> \o Repeat(text, q + 1)
       ELSE IF w # 0 THEN << SubSeq(text, at, w) >> \o Repeat(text, w + 1)
       ELSE << >>

(* quoted_str_parser.parse_string(text), parse_all left at False: a
   ParseException only when not even one token matches; text after the last
   token that matched is not looked at. *)
parse_string(text) ==
    LET toks == Repeat(text, 1)
    IN IF toks = << >>
       THEN [raised |-> TRUE, error |-> "ParseException", tokens |-> << >>]
       ELSE [raised |-> FALSE, error |-> None, tokens |-> toks]

(* extract_quoted: no text or empty text gives the empty list. *)
extract_quoted(text) ==
    IF text = << >> THEN [raised |-> FALSE, error |-> None, tokens |-> << >>]
    ELSE parse_string(text)

NotTokenized == [raised |-> FALSE, error |-> None, tokens |-> << >>]

InitTok ==
    /\ LoaderIdle
    /\ doc \in SeqsUpTo(TokChars, MaxTokLen)
    /\ out = NotTokenized
    /\ phase = "input"

ApplyExtractQuoted ==
    /\ phase = "input"
    /\ out' = extract_quoted(doc)
    /\ phase' = "done"
    /\ UNCHANGED << doc, pipeVars >>

NextTok == ApplyExtractQuoted

SpecTok == InitTok /\ [][NextTok]_vars

(* Positions of the quotes of the text. *)
QuoteAt == { i \in 1..Len(doc) : doc[i] = Quote }

(* Position i lies between an opening quote and what follows it. *)
InQuotes(i) == Cardinality({ j \in QuoteAt : j < i }) % 2 = 1

(* The text has a quote that is never closed. *)
Unterminated == Cardinality(QuoteAt) % 2 = 1

(* Positions whose character belongs to a token: any character between
   quotes, and outside quotes any character that is no blank. *)
TokenPositions ==
    { i \in 1..Len(doc) : doc[i] # Quote /\ (InQuotes(i) \/ doc[i] # Blank) }

(* The characters of the tokens, in the order of the text. *)
TokenText ==
    [ k \in 1..Cardinality(TokenPositions) |->
        doc[CHOOSE i \in TokenPositions :
                Cardinality({ j \in TokenPositions : j <= i }) = k] ]

(* Positions where a bare token starts. *)
BareStarts ==
    { i \in TokenPositions :
        /\ ~InQuotes(i)
        /\ i = 1 \/ doc[i - 1] \in {Blank, Quote} }

RECURSIVE Flatten(_)
Flatten(toks) ==
    IF toks = << >> THEN << >> ELSE Head(toks) \o Flatten(Tail(toks))

(* C13: for a text that is not blank, if its quotes are all closed the result
   is the sequence of all tokens of the text: as many tokens as there are
   quoted runs and bare runs, holding every token character of the text in
   order; and if it has an unterminated quote, extract_quoted raises. *)
C13_QuotedTokens ==
    (phase = "done" /\ \E i \in 1..Len(doc) : doc[i] # Blank) =>
        IF Unterminated
        THEN out.raised
        ELSE /\ ~out.raised
             /\ Len(out.tokens) = Cardinality(QuoteAt) \div 2
                                      + Cardinality(BareStarts)
             /\ Flatten(out.tokens) = TokenText

----------------------------------------------------------------------------
(* The timestamp fields of Alert.from_element and AlertInfo.from_element.  *)

(* What a timestamp element of the document holds: no such element, an empty
   element, a timestamp, or text that is no timestamp. *)
DateTexts == { Absent, Some(<< >>), Some(<< "0", "1" >>), Some(<< "a" >>) }

DateFields == << "sent", "effective", "onset", "expires" >>

(* findtext(elem, path): the text of the first match, None without a match;
   an empty element has the empty text. *)
findtext(d, path) == d[path]

(* if text := findtext(elem, path): datetime.fromisoformat(text) else None.
   No text and empty text give None; fromisoformat raises ValueError on text
   it cannot parse, and nothing here catches it. *)
OptionalDate(found) ==
    IF found = Absent \/ found[1] = << >>
    THEN [raised |-> FALSE, value |-> Absent]
    ELSE IF IsoValid(found[1])
    THEN [raised |-> FALSE, value |-> Some(IsoParse(found[1]))]
    ELSE [raised |-> TRUE, value |-> Absent]

NoDates == [raised |-> FALSE, error |-> None, field |-> None,
            sent |-> Absent, effective |-> Absent, onset |-> Absent,
            expires |-> Absent]

(* The timestamps of one alert with one info block, in the order the code
   reads them: sent at the top of Alert.from_element, then effective, onset
   and expires in AlertInfo.from_element; the first ValueError ends the
   normalization of the alert. *)
from_element_dates(d) ==
    LET got == [ k \in 1..Len(DateFields) |->
                   OptionalDate(findtext(d, DateFields[k])) ]
        bad == { k \in 1..Len(DateFields) : got[k].raised }
    IN IF bad # {}
       THEN [NoDates EXCEPT !.raised = TRUE, !.error = "ValueError",
                            !.field = DateFields[CHOOSE k \in bad :
                                                     \A j \in bad : k <= j]]
       ELSE [NoDates EXCEPT !.sent = got[1].value, !.effective = got[2].value,
                            !.onset = got[3].value, !.expires = got[4].value]

InitDate ==
    /\ LoaderIdle
    /\ doc \in [ sent : DateTexts, effective : DateTexts, onset : DateTexts,
                  expires : DateTexts ]
    /\ out = NoDates
    /\ phase = "input"

ApplyFromElementDates ==
    /\ phase = "input"
    /\ out' = from_element_dates(doc)
    /\ phase' = "done"
    /\ UNCHANGED << doc, pipeVars >>

NextDate == ApplyFromElementDates

SpecDate == InitDate /\ [][NextDate]_vars

(* The element holds text that parses as a timestamp. *)
HoldsTimestamp(found) ==
    found # Absent /\ found[1] # << >> /\ IsoValid(found[1])

(* C14: normalization does not fail on a timestamp field, and each of sent,
   effective, onset and expires is the parsed timestamp when the element's
   text parses as a timestamp and absent when the element is missing, empty
   or holds other text. *)
C14_TimestampFields ==
    phase = "done" =>
        /\ ~out.raised
        /\ \A k \in 1..Len(DateFields) :
               out[DateFields[k]] =
                   IF HoldsTimestamp(doc[DateFields[k]])
                   THEN Some(IsoParse(doc[DateFields[k]][1]))
                   ELSE Absent

----------------------------------------------------------------------------
(* download_alerts.main: the yearly batches and the pagination loop of     *)
(* each. doc is the record count the API reported for the current batch,   *)
(* out holds the loop's variables and the requests sent in the batch.      *)

PageSize == 100000

MaxPages == 3

MaxYears == 2

(* Record counts tried: multiples of the page size and counts just above,
   in the middle of, and just below a page. *)
Remainders == {0, 1, 50000, 99999}

RecordCounts == { q * PageSize + r : q \in 0..MaxPages, r \in Remainders }

(* Before the first batch. *)
NotStarted == [year |-> 0, record_count |-> 0, skip |-> 0, i |-> 0,
               requests |-> << >>]

(* Variant: every request asks for a full page. *)
ToRequestFullPage(record_count) == PageSize

(* to_request = min(100000, record_count) *)
ToRequest(record_count) ==
    IF record_count < PageSize THEN record_count ELSE PageSize

(* The next year of the rrule: record_count = get_alert_count(...), skip = 0,
   i = 1. *)
GetAlertCount ==
    /\ phase = "count"
    /\ out.year < MaxYears
    /\ \E n \in RecordCounts :
          /\ doc' = n
          /\ out' = [year |-> out.year + 1, record_count |-> n, skip |-> 0,
                     i |-> 1, requests |-> << >>]
    /\ phase' = "loop"
    /\ UNCHANGED pipeVars

(* get_alert_count raises httpx.HTTPStatusError: main() ends with it. *)
GetAlertCountFails ==
    /\ phase = "count"
    /\ out.year < MaxYears
    /\ phase' = "failed"
    /\ UNCHANGED << doc, out, pipeVars >>

(* The rrule has no further year: main() prints END. *)
NoMoreYears ==
    /\ phase = "count"
    /\ out.year > 0
    /\ phase' = "end"
    /\ UNCHANGED << doc, out, pipeVars >>

(* One iteration of while record_count > 0: the request for to_request
   records from offset skip into segment i, then the three updates. *)
RequestPage ==
    /\ phase = "loop"
    /\ out.record_count > 0
    /\ LET to_request == ToRequest(out.record_count)
       IN out' = [out EXCEPT
                    !.requests = Append(@, [skip |-> out.skip,
                                            top |-> to_request, i |-> out.i]),
                    !.record_count = @ - to_request,
                    !.skip = @ + to_request,
                    !.i = @ + 1]
    /\ UNCHANGED << doc, phase, pipeVars >>

(* get_alerts raises httpx.HTTPStatusError: the request was sent, nothing is
   written or updated, and main() ends with the exception. *)
RequestPageFails ==
    /\ phase = "loop"
    /\ out.record_count > 0
    /\ out' = [out EXCEPT
                 !.requests = Append(@, [skip |-> out.skip,
                                         top |-> ToRequest(out.record_count),
                                         i |-> out.i])]
    /\ phase' = "failed"
    /\ UNCHANGED << doc, pipeVars >>

(* The loop test fails: the batch is over. *)
LoopEnd ==
    /\ phase = "loop"
    /\ ~(out.record_count > 0)
    /\ phase' = "count"
    /\ UNCHANGED << doc, out, pipeVars >>

InitPage ==
    /\ LoaderIdle
    /\ doc = 0
    /\ out = NotStarted
    /\ phase = "count"

NextPage ==
    \/ GetAlertCount
    \/ GetAlertCountFails
    \/ NoMoreYears
    \/ RequestPage
    \/ RequestPageFails
    \/ LoopEnd

SpecPage == InitPage /\ [][NextPage]_vars

(* main() keeps running. *)
FairSpecPage == SpecPage /\ WF_vars(NextPage)

(* ceil(n / PageSize) *)
PagesOf(n) == (n + PageSize - 1) \div PageSize

(* The batch's loop has been left by its test. *)
BatchDone == phase \in {"count", "end"} /\ out.year > 0

(* The requests of the batch so far: each asks for 1 to PageSize records
   from the offset where the one before ended, the first from 0, none beyond
   the count, and request k writes segment k. *)
RequestsPartition ==
    \A k \in 1..Len(out.requests) :
        LET r == out.requests[k]
        IN /\ 1 <= r.top
           /\ r.top <= PageSize
           /\ r.skip = IF k = 1 THEN 0
                       ELSE out.requests[k - 1].skip + out.requests[k - 1].top
           /\ r.skip + r.top <= doc
           /\ r.i = k
           /\ \A l \in 1..(k - 1) :
                  out.requests[l].skip + out.requests[l].top <= r.skip

(* The part of [0, doc) the requests of the batch cover. *)
Covered ==
    IF out.requests = << >> THEN 0
    ELSE out.requests[Len(out.requests)].skip
             + out.requests[Len(out.requests)].top

(* C17: in every batch skip + record_count is the count reported, the
   requests partition a prefix of [0, count) into pages of 1 to 100000
   records written to segments 1, 2, 3, ...; the loop is left by its test
   exactly after ceil(count / 100000) requests, which then cover [0, count);
   and the loop always ends. *)
C17_Pagination ==
    /\ [](phase = "loop" =>
             /\ out.skip + out.record_count = doc
             /\ out.record_count >= 0
             /\ out.i = Len(out.requests) + 1
             /\ Covered = out.skip)
    /\ [](RequestsPartition /\ Len(out.requests) <= PagesOf(doc))
    /\ [](BatchDone => (Len(out.requests) = PagesOf(doc) /\ Covered = doc))
    /\ [](phase = "loop" => <>(phase # "loop"))

(* C17 witness: a batch whose count is no multiple of the page size has been
   fetched in three requests, the last one short. *)
C17_Witness ==
    /\ BatchDone
    /\ Len(out.requests) = 3
    /\ out.requests[3].top < PageSize
    /\ out.requests[3].top > 1

====
